---- MODULE Spec2Model ----
(***************************************************************************)
(* Model of the HTTP-triggered function Update_device_twin.main: it reads  *)
(* the IoT Hub connection string, parses and validates the JSON body,      *)
(* coerces the eight known desired properties, reads the device twin and   *)
(* patches it conditioned on the etag it read.                             *)
(***************************************************************************)
EXTENDS Integers, Sequences, FiniteSets, TLC

(***************************************************************************)
(* JSON / Python values.  Every value is a record of one shape:            *)
(*   t  the Python type: "null" "bool" "int" "float" "str" "array" "object" *)
(*   b  the truth value of a bool                                          *)
(*   n  an int's value; a float's decimal mantissa; the length of an       *)
(*      array or object; the sign of an infinite float                     *)
(*   e  a float's decimal scale: the float is n * 10^(-e)                  *)
(*   s  a str's characters; "inf" / "nan" for the special floats           *)
(* Finite floats are kept as exact decimals, normalised so that the        *)
(* mantissa has no trailing zero.                                          *)
(***************************************************************************)
Val(t, b, n, e, s) == [t |-> t, b |-> b, n |-> n, e |-> e, s |-> s]

PyNone == Val("null", FALSE, 0, 0, <<>>)
PyBool(b) == Val("bool", b, 0, 0, <<>>)
PyInt(n) == Val("int", FALSE, n, 0, <<>>)
PyStr(s) == Val("str", FALSE, 0, 0, s)
PyList(len) == Val("array", FALSE, len, 0, <<>>)
PyDict(len) == Val("object", FALSE, len, 0, <<>>)
PyNaN == Val("float", FALSE, 0, 0, <<"n", "a", "n">>)
PyInf(sign) == Val("float", FALSE, sign, 0, <<"i", "n", "f">>)

RECURSIVE NormFloat(_, _)
NormFloat(m, e) ==
    IF m = 0 THEN Val("float", FALSE, 0, 0, <<>>)
    ELSE IF m % 10 = 0 THEN NormFloat(m \div 10, e - 1)
    ELSE Val("float", FALSE, m, e, <<>>)

PyFloat(m, e) == NormFloat(m, e)

RECURSIVE Pow10(_)
Pow10(k) == IF k <= 0 THEN 1 ELSE 10 * Pow10(k - 1)

Abs(x) == IF x < 0 THEN -x ELSE x

(***************************************************************************)
(* Characters and the string helpers the built-ins rely on.                *)
(***************************************************************************)
Upper == <<"A", "B", "C", "D", "E", "F", "G", "H", "I", "J", "K", "L", "M",
           "N", "O", "P", "Q", "R", "S", "T", "U", "V", "W", "X", "Y", "Z">>
Lower == <<"a", "b", "c", "d", "e", "f", "g", "h", "i", "j", "k", "l", "m",
           "n", "o", "p", "q", "r", "s", "t", "u", "v", "w", "x", "y", "z">>
Digits == <<"0", "1", "2", "3", "4", "5", "6", "7", "8", "9">>

IndexIn(c, table) ==
    IF \E i \in DOMAIN table : table[i] = c
    THEN CHOOSE i \in DOMAIN table : table[i] = c
    ELSE 0

\* str.lower()
lower(s) ==
    [i \in DOMAIN s |-> IF IndexIn(s[i], Upper) > 0 THEN Lower[IndexIn(s[i], Upper)] ELSE s[i]]

IsSpace(c) == c = " "
IsDigit(c) == IndexIn(c, Digits) > 0
DigitVal(c) == IndexIn(c, Digits) - 1

\* str.strip(), as int() and float() apply it to their argument
RECURSIVE strip(_)
strip(s) ==
    IF s = <<>> THEN s
    ELSE IF IsSpace(Head(s)) THEN strip(Tail(s))
    ELSE IF IsSpace(s[Len(s)]) THEN strip(SubSeq(s, 1, Len(s) - 1))
    ELSE s

HasSign(s) == s # <<>> /\ Head(s) \in {"+", "-"}
SignOf(s) == IF s # <<>> /\ Head(s) = "-" THEN -1 ELSE 1
Unsigned(s) == IF HasSign(s) THEN Tail(s) ELSE s

\* a run of digits, single underscores allowed between digits
IsDigitRun(s) ==
    /\ s # <<>>
    /\ IsDigit(s[1])
    /\ IsDigit(s[Len(s)])
    /\ \A i \in DOMAIN s :
          \/ IsDigit(s[i])
          \/ s[i] = "_" /\ i > 1 /\ i < Len(s) /\ IsDigit(s[i - 1]) /\ IsDigit(s[i + 1])

RECURSIVE DigitRunValue(_, _)
DigitRunValue(s, acc) ==
    IF s = <<>> THEN acc
    ELSE IF Head(s) = "_" THEN DigitRunValue(Tail(s), acc)
    ELSE DigitRunValue(Tail(s), 10 * acc + DigitVal(Head(s)))

RECURSIVE CountDigits(_)
CountDigits(s) ==
    IF s = <<>> THEN 0
    ELSE (IF IsDigit(Head(s)) THEN 1 ELSE 0) + CountDigits(Tail(s))

FirstIndex(s, cs) ==
    IF \E i \in DOMAIN s : s[i] \in cs
    THEN CHOOSE i \in DOMAIN s : s[i] \in cs /\ \A j \in 1..(i - 1) : s[j] \notin cs
    ELSE 0

(***************************************************************************)
(* The built-in conversions.  Each returns [exc, val]: exc is "" when the  *)
(* call returns val, and the name of the exception it raises otherwise.    *)
(***************************************************************************)
Returns(v) == [exc |-> "", val |-> v]
Raises(x) == [exc |-> x, val |-> PyNone]

\* int(str)
IntOfStripped(t) ==
    IF IsDigitRun(Unsigned(t)) THEN Returns(PyInt(SignOf(t) * DigitRunValue(Unsigned(t), 0)))
    ELSE Raises("ValueError")

IntOfStr(s) == IntOfStripped(strip(s))

\* int(float): truncation toward zero
IntOfFloat(v) ==
    IF v.s = <<"n", "a", "n">> THEN Raises("ValueError")
    ELSE IF v.s = <<"i", "n", "f">> THEN Raises("OverflowError")
    ELSE IF v.e >= 0
         THEN Returns(PyInt((IF v.n < 0 THEN -1 ELSE 1) * (Abs(v.n) \div Pow10(v.e))))
         ELSE Returns(PyInt(v.n * Pow10(-v.e)))

\* int(x)
int(v) ==
    CASE v.t = "str" -> IntOfStr(v.s)
      [] v.t = "float" -> IntOfFloat(v)
      [] v.t = "int" -> Returns(v)
      [] v.t = "bool" -> Returns(PyInt(IF v.b THEN 1 ELSE 0))
      [] OTHER -> Raises("TypeError")

\* a decimal literal: integer part ip, fraction fp, exponent expo (hasExpo: an
\* "e" was written)
FloatOfParts(sgn, ip, fp, hasExpo, expo) ==
    IF /\ ip # <<>> \/ fp # <<>>
       /\ ip = <<>> \/ IsDigitRun(ip)
       /\ fp = <<>> \/ IsDigitRun(fp)
       /\ ~hasExpo \/ IsDigitRun(Unsigned(expo))
    THEN Returns(PyFloat(sgn * DigitRunValue(ip \o fp, 0),
                         CountDigits(fp)
                           - (IF hasExpo THEN SignOf(expo) * DigitRunValue(Unsigned(expo), 0)
                              ELSE 0)))
    ELSE Raises("ValueError")

\* the mantissa is split at the first "."
FloatOfMantissa(sgn, mant, dPos, hasExpo, expo) ==
    FloatOfParts(sgn,
                 IF dPos = 0 THEN mant ELSE SubSeq(mant, 1, dPos - 1),
                 IF dPos = 0 THEN <<>> ELSE SubSeq(mant, dPos + 1, Len(mant)),
                 hasExpo, expo)

\* the literal is split at the first "e" or "E"
FloatOfLiteral(sgn, u, ePos) ==
    IF ePos = 0 THEN FloatOfMantissa(sgn, u, FirstIndex(u, {"."}), FALSE, <<>>)
    ELSE FloatOfMantissa(sgn, SubSeq(u, 1, ePos - 1),
                         FirstIndex(SubSeq(u, 1, ePos - 1), {"."}),
                         TRUE, SubSeq(u, ePos + 1, Len(u)))

\* sgn and u: the sign and the rest of the stripped argument; lu is u lower-cased
FloatOfUnsigned(sgn, u, lu) ==
    IF lu \in {<<"i", "n", "f">>, <<"i", "n", "f", "i", "n", "i", "t", "y">>}
    THEN Returns(PyInf(sgn))
    ELSE IF lu = <<"n", "a", "n">> THEN Returns(PyNaN)
    ELSE FloatOfLiteral(sgn, u, FirstIndex(u, {"e", "E"}))

FloatOfStripped(t) == FloatOfUnsigned(SignOf(t), Unsigned(t), lower(Unsigned(t)))

\* float(str)
FloatOfStr(s) == FloatOfStripped(strip(s))

\* float(x)
float(v) ==
    CASE v.t = "str" -> FloatOfStr(v.s)
      [] v.t = "float" -> Returns(v)
      [] v.t = "int" -> Returns(PyFloat(v.n, 0))
      [] v.t = "bool" -> Returns(PyFloat(IF v.b THEN 1 ELSE 0, 0))
      [] OTHER -> Raises("TypeError")

\* bool(x): Python truthiness
bool(v) ==
    CASE v.t = "null" -> FALSE
      [] v.t = "bool" -> v.b
      [] v.t = "int" -> v.n # 0
      [] v.t = "float" -> v.n # 0 \/ v.s # <<>>
      [] v.t = "str" -> v.s # <<>>
      [] OTHER -> v.n > 0

\* isinstance(x, bool), isinstance(x, str), isinstance(x, dict)
isinstance_bool(v) == v.t = "bool"
isinstance_str(v) == v.t = "str"
isinstance_dict(v) == v.t = "object"
\* isinstance(x, int): bool is a subclass of int
isinstance_int(v) == v.t \in {"int", "bool"}
\* isinstance(x, (int, float))
isinstance_int_float(v) == v.t \in {"int", "bool", "float"}

(***************************************************************************)
(* Mappings (Python dicts with string keys) and HTTP responses.            *)
(***************************************************************************)
EmptyMap == [k \in {} |-> PyNone]

\* a parsed JSON value at the top of the body: v is the value, m its members
\* when it is an object
Json(v, m) == [v |-> v, m |-> m]
JsonDict(m) == Json(PyDict(Cardinality(DOMAIN m)), m)
JsonScalar(v) == Json(v, EmptyMap)

\* dict.get(key): None when the key is absent
get(fields, key) == IF key \in DOMAIN fields THEN fields[key] ELSE JsonScalar(PyNone)

\* func.HttpResponse(body, status_code=...).  text is the literal part of the
\* body; exc, device and props are the values formatted into it.
HttpResponse(text, status_code, exc, device, props) ==
    [status_code |-> status_code, text |-> text, exc |-> exc, device |-> device, props |-> props]

NoResponse == HttpResponse("", 0, "", PyNone, EmptyMap)

PlainResponse(text, status_code) == HttpResponse(text, status_code, "", PyNone, EmptyMap)

\* the handler of "except Exception as e"
InternalServerError(e) == HttpResponse("Internal server error: ", 500, e, PyNone, EmptyMap)

expected_keys ==
    {"DemoMode", "DeviceModel", "ExternalControl", "FlowState",
     "PressureState", "VoCuState", "currentCalibration", "flowMeterCalibration"}

TrueStrings ==
    {<<"t", "r", "u", "e">>, <<"1">>, <<"y", "e", "s">>, <<"o", "n">>}

(***************************************************************************)
(* Type validation and conversion.  A frame [props, resp, exc] is the      *)
(* state of main between two blocks: props is desired_props, resp the      *)
(* response of an early return (status_code 0: none), exc an exception     *)
(* that left the block uncaught ("": none).  A block is skipped once main  *)
(* has returned or raised.                                                 *)
(***************************************************************************)
Frame(props, resp, exc) == [props |-> props, resp |-> resp, exc |-> exc]
Running(st) == st.resp.status_code = 0 /\ st.exc = ""

\* faulty variant: the string is compared without .lower()
CoerceBool_no_lower(v) ==
    IF ~isinstance_bool(v)
    THEN IF isinstance_str(v) THEN PyBool(v.s \in TrueStrings)
         ELSE PyBool(bool(v))
    ELSE v

\* the value a boolean property is replaced by
CoerceBool(v) ==
    IF ~isinstance_bool(v)
    THEN IF isinstance_str(v) THEN PyBool(lower(v.s) \in TrueStrings)
         ELSE PyBool(bool(v))
    ELSE v

\* if "<key>" in desired_props: ... ensure it is a boolean
BoolBlock(st, key) ==
    IF Running(st) /\ key \in DOMAIN st.props
    THEN Frame([st.props EXCEPT ![key] = CoerceBool(st.props[key])], st.resp, st.exc)
    ELSE st

\* try: <target>(value)  except ValueError: return 400 with text
TryConvert(st, key, conv, text) ==
    IF conv.exc = "" THEN Frame([st.props EXCEPT ![key] = conv.val], st.resp, st.exc)
    ELSE IF conv.exc = "ValueError" THEN Frame(st.props, PlainResponse(text, 400), st.exc)
    ELSE Frame(st.props, st.resp, conv.exc)

\* if "<key>" in desired_props: ... ensure it is an integer
IntBlock(st, key, text) ==
    IF Running(st) /\ key \in DOMAIN st.props /\ ~isinstance_int(st.props[key])
    THEN TryConvert(st, key, int(st.props[key]), text)
    ELSE st

\* if "<key>" in desired_props: ... ensure it is a float
FloatBlock(st, key, text) ==
    IF Running(st) /\ key \in DOMAIN st.props /\ ~isinstance_int_float(st.props[key])
    THEN TryConvert(st, key, float(st.props[key]), text)
    ELSE st

\* the eight blocks, in the order main runs them
coerce(desired_props) ==
    LET s0 == Frame(desired_props, NoResponse, "")
        s1 == BoolBlock(s0, "DemoMode")
        s2 == IntBlock(s1, "DeviceModel", "DeviceModel must be a valid integer.")
        s3 == IntBlock(s2, "ExternalControl", "ExternalControl must be a valid integer.")
        s4 == BoolBlock(s3, "FlowState")
        s5 == BoolBlock(s4, "PressureState")
        s6 == BoolBlock(s5, "VoCuState")
        s7 == FloatBlock(s6, "currentCalibration", "currentCalibration must be a valid number.")
        s8 == FloatBlock(s7, "flowMeterCalibration", "flowMeterCalibration must be a valid number.")
    IN  s8

\* faulty variant: "if conn_str is None", an empty string passes
MissingConnStr_is_none(conn_str) == conn_str.t = "null"

\* if not conn_str
MissingConnStr(conn_str) == ~bool(conn_str)

\* faulty variant: "and" for "or"
InvalidRequest_and(device_id, desired) == ~bool(device_id.v) /\ ~isinstance_dict(desired.v)

\* if not device_id or not isinstance(desired_props, dict)
InvalidRequest(device_id, desired) == ~bool(device_id.v) \/ ~isinstance_dict(desired.v)

\* faulty variant: the strict validation the source leaves commented out, as a filter
BuildPatch_known_only(desired_props) ==
    [properties |->
        [desired |-> [k \in DOMAIN desired_props \cap expected_keys |-> desired_props[k]]]]

\* patch = {"properties": {"desired": desired_props}}
BuildPatch(desired_props) == [properties |-> [desired |-> desired_props]]

NoPatch == BuildPatch(EmptyMap)

(***************************************************************************)
(* main up to its first call of the twin store.  body is the request body  *)
(* (kind "invalid": not JSON, get_json raises ValueError; "nonobject": JSON *)
(* that is no object, body.get raises AttributeError; "object": fields),   *)
(* ctor the exception IoTHubRegistryManager(conn_str) raises ("": none).   *)
(* The result is [next, resp, device_id, desired_props]: next is "done"    *)
(* with the response, or "get_twin".                                       *)
(***************************************************************************)
Local(next, resp, device_id, desired_props) ==
    [next |-> next, resp |-> resp, device_id |-> device_id, desired_props |-> desired_props]

\* lines 45-133: st is the frame the conversion blocks leave
main_after_validation(device_id, st, ctor) ==
    IF st.exc # ""
    THEN Local("done", InternalServerError(st.exc), device_id.v, st.props)
    ELSE IF st.resp.status_code # 0
    THEN Local("done", st.resp, device_id.v, st.props)
    ELSE IF ctor # ""
    THEN Local("done", InternalServerError(ctor), device_id.v, st.props)
    ELSE Local("get_twin", NoResponse, device_id.v, st.props)

\* lines 22-133: device_id and desired are body.get("deviceId"), body.get("desired")
main_parsed(device_id, desired, ctor) ==
    IF InvalidRequest(device_id, desired)
    THEN Local("done",
               PlainResponse("Request must include 'deviceId' (string) and 'desired' (object).", 400),
               device_id.v, EmptyMap)
    ELSE main_after_validation(device_id, coerce(desired.m), ctor)

main_local(conn_str, body, ctor) ==
    IF MissingConnStr(conn_str)
    THEN Local("done",
               PlainResponse("Internal error: Missing IoT Hub connection string", 500),
               PyNone, EmptyMap)
    ELSE IF body.kind = "invalid"
    THEN Local("done", InternalServerError("ValueError"), PyNone, EmptyMap)
    ELSE IF body.kind # "object"
    THEN Local("done", InternalServerError("AttributeError"), PyNone, EmptyMap)
    ELSE main_parsed(get(body.fields, "deviceId"), get(body.fields, "desired"), ctor)

(***************************************************************************)
(* The twin store (IoT Hub registry), as main consumes it: get_twin reads  *)
(* the twin and its etag, update_twin merges a patch into the desired      *)
(* properties if the etag passed is the twin's current etag.  Either call  *)
(* may fail; a call that fails raises the named exception.                 *)
(***************************************************************************)
VARIABLES
    environ,        \* os.environ["IOTHUB_CONNECTION_STRING"] (PyNone: unset)
    twins,          \* the store: device name -> [etag, desired]
    pc,             \* per request: "idle", "get_twin", "update_twin", "done"
    req,            \* per request: the HTTP body received
    device_id,      \* per request: main's device_id
    desired_props,  \* per request: main's desired_props
    twin_etag,      \* per request: twin.etag as get_twin returned it
    resp,           \* per request: the HttpResponse main returned
    calls           \* per request: the store calls main made, in order

vars == <<environ, twins, pc, req, device_id, desired_props, twin_etag, resp, calls>>

\* ---- bounds
NumReq == 2         \* request slots (concurrent invocations of main)
MaxKeys == 2        \* keys in a request's desired object

Reqs == 1..NumReq

DEV1 == <<"d", "e", "v", "-", "1">>
GHOST == <<"g", "h", "o", "s", "t">>
Registered == {DEV1}

Merge(old, new) ==
    [k \in DOMAIN old \cup DOMAIN new |-> IF k \in DOMAIN new THEN new[k] ELSE old[k]]

Known(id) == id.t = "str" /\ id.s \in Registered

\* the outcomes of registry_manager.get_twin(device_id): "" is success
GetTwinOutcomes(id) ==
    (IF Known(id) THEN {""} ELSE {"NotFoundError"}) \cup {"AuthError", "UnavailableError"}

\* the outcomes of registry_manager.update_twin(device_id, patch, etag)
UpdateTwinOutcomes(id, etag) ==
    (IF ~Known(id) THEN {"NotFoundError"}
     ELSE IF twins[id.s].etag # etag THEN {"ConflictError"}
     ELSE {""}) \cup {"AuthError", "UnavailableError"}

\* the twin after an accepted update_twin
UpdatedTwin(twin, patch) ==
    [etag |-> twin.etag + 1, desired |-> Merge(twin.desired, patch.properties.desired)]

\* a record of one store call: op, arguments, outcome, the etag a get_twin
\* returned, and for update_twin its position among all update_twin calls
Call(op, id, patch, etag, result, retag, ord) ==
    [op |-> op, id |-> id, patch |-> patch, etag |-> etag, result |-> result,
     retag |-> retag, ord |-> ord]

NumUpdateCalls ==
    Cardinality({<<r, i>> \in Reqs \X (1..2) :
                    i \in DOMAIN calls[r] /\ calls[r][i].op = "update_twin"})

(***************************************************************************)
(* main, in three steps: everything before the first store call, the call  *)
(* of get_twin, and the call of update_twin with the response.             *)
(***************************************************************************)
\* lines 9-133
main_request(r, body, ctor) ==
    /\ pc[r] = "idle"
    /\ \E out \in {main_local(environ, body, ctor)} :
           /\ pc' = [pc EXCEPT ![r] = out.next]
           /\ resp' = [resp EXCEPT ![r] = out.resp]
           /\ device_id' = [device_id EXCEPT ![r] = out.device_id]
           /\ desired_props' = [desired_props EXCEPT ![r] = out.desired_props]
    /\ req' = [req EXCEPT ![r] = body]
    /\ UNCHANGED <<environ, twins, twin_etag, calls>>

\* faulty variants: the call is retried; the error is swallowed without a response
OnStoreError_retry(e) == [next |-> "get_twin", resp |-> NoResponse]
OnStoreError_swallow(e) == [next |-> "done", resp |-> NoResponse]

\* what main does with an exception of a store call: the except clause
OnStoreError(e) == [next |-> "done", resp |-> InternalServerError(e)]

\* twin = registry_manager.get_twin(device_id)
main_get_twin(r) ==
    /\ pc[r] = "get_twin"
    /\ \E result \in GetTwinOutcomes(device_id[r]) :
          LET retag == IF result = "" THEN twins[device_id[r].s].etag ELSE 0
          IN  /\ calls' = [calls EXCEPT ![r] =
                    Append(@, Call("get_twin", device_id[r], NoPatch, 0, result, retag, 0))]
              /\ IF result = ""
                 THEN /\ twin_etag' = [twin_etag EXCEPT ![r] = retag]
                      /\ pc' = [pc EXCEPT ![r] = "update_twin"]
                      /\ UNCHANGED resp
                 ELSE /\ pc' = [pc EXCEPT ![r] = OnStoreError(result).next]
                      /\ resp' = [resp EXCEPT ![r] = OnStoreError(result).resp]
                      /\ UNCHANGED twin_etag
    /\ UNCHANGED <<environ, twins, req, device_id, desired_props>>

\* faulty variants: the etag is read again at the time of the write; no etag is passed
EtagForUpdate_current(r) == twins[device_id[r].s].etag
EtagForUpdate_none(r) == 0

\* the third argument of update_twin: twin.etag
EtagForUpdate(r) == twin_etag[r]

\* the 200 response: updated_summary is a copy of desired_props
Success(id, props) ==
    HttpResponse("Successfully updated twin for device / with properties: ", 200, "", id,
                 [k \in DOMAIN props |-> props[k]])

\* registry_manager.update_twin(device_id, patch, twin.etag) and the response
main_update_twin(r) ==
    /\ pc[r] = "update_twin"
    /\ LET patch == BuildPatch(desired_props[r])
           etag == EtagForUpdate(r)
       IN  \E result \in UpdateTwinOutcomes(device_id[r], etag) :
              /\ calls' = [calls EXCEPT ![r] =
                    Append(@, Call("update_twin", device_id[r], patch, etag, result, 0,
                                   NumUpdateCalls + 1))]
              /\ IF result = ""
                 THEN /\ twins' = [twins EXCEPT ![device_id[r].s] = UpdatedTwin(@, patch)]
                      /\ pc' = [pc EXCEPT ![r] = "done"]
                      /\ resp' = [resp EXCEPT ![r] = Success(device_id[r], desired_props[r])]
                 ELSE /\ pc' = [pc EXCEPT ![r] = OnStoreError(result).next]
                      /\ resp' = [resp EXCEPT ![r] = OnStoreError(result).resp]
                      /\ UNCHANGED twins
    /\ UNCHANGED <<environ, req, device_id, desired_props, twin_etag>>

\* another client of the hub changes the twin of device d while a request holds
\* its etag: the etag moves on and the one held is stale
ExternalWrite(d) ==
    /\ \E r \in Reqs : /\ pc[r] = "update_twin"
                       /\ device_id[r].s = d
                       /\ twin_etag[r] = twins[d].etag
    /\ twins' = [twins EXCEPT ![d].etag = @ + 1]
    /\ UNCHANGED <<environ, pc, req, device_id, desired_props, twin_etag, resp, calls>>

(***************************************************************************)
(* Requests.                                                               *)
(***************************************************************************)
Body(kind, fields) == [kind |-> kind, fields |-> fields]
NoBody == Body("none", EmptyMap)

ValidConnStr == PyStr(<<"H", "o", "s", "t", "N", "a", "m", "e", "=", "h">>)
ConnStrs == {PyNone, PyStr(<<>>), ValidConnStr}

Keys == expected_keys \cup {"customKey"}

SampleVals ==
    { PyBool(TRUE), PyInt(0), PyFloat(35, 1),
      PyStr(<<"O", "n">>), PyStr(<<"2">>), PyStr(<<"3", ".", "5">>), PyStr(<<"a", "b", "c">>),
      PyNone, PyList(0), PyDict(1) }

KeySets == {ks \in SUBSET Keys : Cardinality(ks) <= MaxKeys}

\* the values of "desired" that are no object
DesiredScalars == {JsonScalar(v) : v \in {x \in SampleVals : x.t # "object"}}

DeviceIdJson == {JsonScalar(PyStr(<<>>)), JsonScalar(PyStr(DEV1))}

\* zero or one value for a member of the body: the member may be absent
Optional(S) == {{}} \cup {{x} : x \in S}

\* the body's members: ids and desireds hold the member's value, or nothing
FieldsOf(ids, desireds) ==
    [k \in (IF ids = {} THEN {} ELSE {"deviceId"})
              \cup (IF desireds = {} THEN {} ELSE {"desired"}) |->
        IF k = "deviceId" THEN CHOOSE i \in ids : TRUE ELSE CHOOSE d \in desireds : TRUE]

CtorOutcomes == {"", "ValueError"}

RaceDesired ==
    { [k \in {"DemoMode"} |-> PyStr(<<"y", "e", "s">>)],
      [k \in {"DeviceModel"} |-> PyStr(<<"2">>)] }

RaceBodies ==
    {Body("object", f) :
        f \in {[k \in {"deviceId", "desired"} |->
                   IF k = "deviceId" THEN JsonScalar(PyStr(x[1])) ELSE JsonDict(x[2])] :
               x \in {DEV1, GHOST} \X RaceDesired}}

(***************************************************************************)
(* Specifications.  Spec: one request with any body, against a store that  *)
(* other clients write to.  RaceSpec: NumReq concurrent, well-formed        *)
(* requests.  FairSpec: RaceSpec where every store call comes back.         *)
(***************************************************************************)
InitWith(conns) ==
    /\ environ \in conns
    /\ twins = [d \in Registered |-> [etag |-> 1, desired |-> EmptyMap]]
    /\ pc = [r \in Reqs |-> "idle"]
    /\ req = [r \in Reqs |-> NoBody]
    /\ device_id = [r \in Reqs |-> PyNone]
    /\ desired_props = [r \in Reqs |-> EmptyMap]
    /\ twin_etag = [r \in Reqs |-> 0]
    /\ resp = [r \in Reqs |-> NoResponse]
    /\ calls = [r \in Reqs |-> <<>>]

Init == InitWith(ConnStrs)

Receive(r) ==
    /\ \A q \in Reqs : pc[q] = "idle" /\ r <= q
    /\ \E ctor \in CtorOutcomes :
          \/ \E kind \in {"invalid", "nonobject"} : main_request(r, Body(kind, EmptyMap), ctor)
          \/ \E ids \in Optional(DeviceIdJson), desireds \in Optional(DesiredScalars) :
                main_request(r, Body("object", FieldsOf(ids, desireds)), ctor)
          \/ \E ids \in Optional(DeviceIdJson), ks \in KeySets :
                \E m \in [ks -> SampleVals] :
                   main_request(r, Body("object", FieldsOf(ids, {JsonDict(m)})), ctor)

GetTwin == \E r \in Reqs : main_get_twin(r)
UpdateTwin == \E r \in Reqs : main_update_twin(r)
OtherClient == \E d \in Registered : ExternalWrite(d)

Next ==
    \/ \E r \in Reqs : Receive(r)
    \/ GetTwin
    \/ UpdateTwin
    \/ OtherClient

Spec == Init /\ [][Next]_vars

RaceInit == InitWith({ValidConnStr})

RaceReceive(r) == \E body \in RaceBodies : main_request(r, body, "")

RaceNext ==
    \/ \E r \in Reqs : RaceReceive(r)
    \/ GetTwin
    \/ UpdateTwin

RaceSpec == RaceInit /\ [][RaceNext]_vars

FairSpec ==
    /\ RaceSpec
    /\ \A r \in Reqs : WF_vars(main_get_twin(r)) /\ WF_vars(main_update_twin(r))

(***************************************************************************)
(* Vocabulary of the properties below, stated on the request as received   *)
(* and on the responses and store calls observed.                          *)
(***************************************************************************)
Received(r) == pc[r] # "idle"
Finished(r) == pc[r] = "done"
CredentialSet == environ.t = "str" /\ environ.s # <<>>
IsObjectBody(r) == req[r].kind = "object"

HasMember(r, key) == key \in DOMAIN req[r].fields
DeviceIdGiven(r) ==
    /\ HasMember(r, "deviceId")
    /\ req[r].fields["deviceId"].v \notin {PyNone, PyStr(<<>>)}
DesiredIsObject(r) == HasMember(r, "desired") /\ req[r].fields["desired"].v.t = "object"
RequestedDesired(r) == req[r].fields["desired"].m

\* the request names a device and carries a desired object
WellFormed(r) == IsObjectBody(r) /\ DeviceIdGiven(r) /\ DesiredIsObject(r)
\* the request is missing deviceId or desired, or desired is not an object
LacksFields(r) == Received(r) /\ ~WellFormed(r)

BoolProps == {"DemoMode", "FlowState", "PressureState", "VoCuState"}
IntProps == {"DeviceModel", "ExternalControl"}
FloatProps == {"currentCalibration", "flowMeterCalibration"}
SchemaProps == BoolProps \cup IntProps \cup FloatProps

HasDeclaredType(key, v) ==
    CASE key \in BoolProps -> v.t = "bool"
      [] key \in IntProps -> v.t = "int"
      [] key \in FloatProps -> v.t \in {"int", "float"}
      [] OTHER -> TRUE

CoercionMessage ==
    [k \in IntProps \cup FloatProps |->
        CASE k = "DeviceModel" -> "DeviceModel must be a valid integer."
          [] k = "ExternalControl" -> "ExternalControl must be a valid integer."
          [] k = "currentCalibration" -> "currentCalibration must be a valid number."
          [] k = "flowMeterCalibration" -> "flowMeterCalibration must be a valid number."]

ValidationMessage == "Request must include 'deviceId' (string) and 'desired' (object)."
ConfigurationMessage == "Internal error: Missing IoT Hub connection string"

CallsOf(r, op) == {i \in DOMAIN calls[r] : calls[r][i].op = op}
UpdateCalled(r) == CallsOf(r, "update_twin") # {}
NoStoreCall(r) == calls[r] = <<>>

(***************************************************************************)
(* C1 (as stated): every request that is missing deviceId or desired, or   *)
(* whose desired is not an object, is answered 400 and the store is never  *)
(* contacted for it.                                                       *)
(***************************************************************************)
C1_AlwaysBadRequest ==
    \A r \in Reqs :
        LacksFields(r) => Finished(r) /\ resp[r].status_code = 400 /\ NoStoreCall(r)

(***************************************************************************)
(* C1 (amended): such a request never reaches the store; when the          *)
(* connection string is set and the body is a JSON object it is answered   *)
(* 400 with the validation message.                                        *)
(***************************************************************************)
C1_BadRequest ==
    \A r \in Reqs :
        LacksFields(r) =>
            /\ Finished(r)
            /\ NoStoreCall(r)
            /\ CredentialSet /\ IsObjectBody(r) =>
                  /\ resp[r].status_code = 400
                  /\ resp[r].text = ValidationMessage

C1_Witness ==
    \E r \in Reqs :
        /\ CredentialSet /\ IsObjectBody(r) /\ DeviceIdGiven(r)
        /\ HasMember(r, "desired") /\ ~DesiredIsObject(r)
        /\ Finished(r) /\ resp[r].status_code = 400 /\ NoStoreCall(r)

(***************************************************************************)
(* C2: whenever update_twin is called, every schema property of the        *)
(* patch's desired map holds a value of the declared type (boolean,        *)
(* integer, number).                                                       *)
(***************************************************************************)
C2_PatchIsTyped ==
    \A r \in Reqs : \A i \in CallsOf(r, "update_twin") :
        LET sent == calls[r][i].patch.properties.desired
        IN  \A k \in DOMAIN sent \cap SchemaProps : HasDeclaredType(k, sent[k])

(***************************************************************************)
(* C3: a well-formed request in which an integer or float property holds a *)
(* value that cannot be converted (a string without a number, null, an     *)
(* array, an object) is answered 400 with that property's message, and no  *)
(* store call is made.                                                     *)
(***************************************************************************)
Unconvertible(v) ==
    \/ v.t \in {"null", "array", "object"}
    \/ v.t = "str" /\ v.s \in {<<"O", "n">>, <<"a", "b", "c">>}

Offending(r) ==
    {k \in DOMAIN RequestedDesired(r) \cap (IntProps \cup FloatProps) :
        Unconvertible(RequestedDesired(r)[k])}

C3_UnconvertibleIs400 ==
    \A r \in Reqs :
        (CredentialSet /\ Received(r) /\ WellFormed(r) /\ Offending(r) # {}) =>
            /\ Finished(r)
            /\ resp[r].status_code = 400
            /\ \E k \in Offending(r) : resp[r].text = CoercionMessage[k]
            /\ NoStoreCall(r)

(***************************************************************************)
(* C4: coercion of a boolean property never rejects the request: a boolean *)
(* is kept, a string becomes true exactly when its lower-cased form is     *)
(* "true", "1", "yes" or "on", any other value becomes its truthiness.     *)
(***************************************************************************)
Truthiness(v) ==
    CASE v.t = "null" -> FALSE
      [] v.t \in {"int", "float"} -> ~(v.n = 0 /\ v.s = <<>>)
      [] OTHER -> v.n > 0

ExpectedBool(v) ==
    CASE v.t = "bool" -> v
      [] v.t = "str" ->
            PyBool(\E w \in {<<"t", "r", "u", "e">>, <<"1">>, <<"y", "e", "s">>, <<"o", "n">>} :
                      lower(v.s) = w)
      [] OTHER -> PyBool(Truthiness(v))

BoolsCoerced(r) ==
    \A k \in DOMAIN RequestedDesired(r) \cap BoolProps :
        /\ k \in DOMAIN desired_props[r]
        /\ desired_props[r][k] = ExpectedBool(RequestedDesired(r)[k])

\* the request got past coercion: it reached the store, or only the
\* construction of the registry manager failed
PastCoercion(r) ==
    \/ pc[r] \in {"get_twin", "update_twin"}
    \/ ~NoStoreCall(r)
    \/ Finished(r) /\ resp[r].status_code = 500 /\ resp[r].exc = "ValueError"

C4_BoolCoercion ==
    \A r \in Reqs :
        (CredentialSet /\ Received(r) /\ WellFormed(r)) =>
            /\ (DOMAIN RequestedDesired(r) \cap (IntProps \cup FloatProps) = {}) =>
                  PastCoercion(r) /\ BoolsCoerced(r)
            /\ (pc[r] \in {"get_twin", "update_twin"} \/ ~NoStoreCall(r)) => BoolsCoerced(r)

C4_Witness ==
    \E r \in Reqs :
        /\ UpdateCalled(r)
        /\ "FlowState" \in DOMAIN RequestedDesired(r)
        /\ RequestedDesired(r)["FlowState"] = PyStr(<<"O", "n">>)
        /\ desired_props[r]["FlowState"] = PyBool(TRUE)
        /\ \E k \in DOMAIN RequestedDesired(r) \cap BoolProps :
              RequestedDesired(r)[k] = PyList(0) /\ desired_props[r][k] = PyBool(FALSE)

(***************************************************************************)
(* C5: the patch sent to update_twin has exactly the keys of the request's *)
(* desired map, and every key outside the schema carries the value it had  *)
(* in the request.                                                         *)
(***************************************************************************)
C5_Frame ==
    \A r \in Reqs : \A i \in CallsOf(r, "update_twin") :
        LET sent == calls[r][i].patch.properties.desired
        IN  /\ DOMAIN sent = DOMAIN RequestedDesired(r)
            /\ \A k \in DOMAIN sent \ SchemaProps : sent[k] = RequestedDesired(r)[k]

C5_Witness ==
    \E r \in Reqs : \E i \in CallsOf(r, "update_twin") :
        LET sent == calls[r][i].patch.properties.desired
        IN  /\ "customKey" \in DOMAIN sent
            /\ sent["customKey"] = PyStr(<<"a", "b", "c">>)
            /\ \E k \in DOMAIN sent \cap SchemaProps : sent[k] # RequestedDesired(r)[k]

(***************************************************************************)
(* C6: with the connection string unset or empty, every request, whatever  *)
(* its body, is answered 500 with the configuration message, the body is    *)
(* not parsed and the store is not called.                                 *)
(***************************************************************************)
C6_MissingCredential ==
    \A r \in Reqs :
        (Received(r) /\ ~CredentialSet) =>
            /\ Finished(r)
            /\ resp[r] = PlainResponse(ConfigurationMessage, 500)
            /\ NoStoreCall(r)

C6_Witness ==
    \E r \in Reqs :
        /\ environ = PyStr(<<>>)
        /\ req[r].kind = "invalid"
        /\ Finished(r) /\ resp[r].status_code = 500 /\ resp[r].text = ConfigurationMessage

(***************************************************************************)
(* Two requests read the same twin version: both called get_twin for the   *)
(* same device and were given the same etag.                               *)
(***************************************************************************)
ReadTwin(r) == calls[r] # <<>> /\ calls[r][1].op = "get_twin" /\ calls[r][1].result = ""
CalledUpdate(r) == Len(calls[r]) = 2 /\ calls[r][2].op = "update_twin"
SameRead(r1, r2) ==
    /\ r1 # r2
    /\ ReadTwin(r1) /\ ReadTwin(r2)
    /\ calls[r1][1].id = calls[r2][1].id
    /\ calls[r1][1].retag = calls[r2][1].retag
\* r1 reached update_twin before r2
UpdatedBefore(r1, r2) ==
    CalledUpdate(r1) /\ CalledUpdate(r2) /\ calls[r1][2].ord < calls[r2][2].ord

(***************************************************************************)
(* C7 (as stated): of two requests that read the same twin version, the    *)
(* first to reach update_twin is answered 200 and the second 500.          *)
(***************************************************************************)
C7_FirstWins ==
    \A r1, r2 \in Reqs :
        (SameRead(r1, r2) /\ UpdatedBefore(r1, r2)) =>
            resp[r1].status_code = 200 /\ resp[r2].status_code = 500

(***************************************************************************)
(* C7 (amended): two requests that read the same twin version never both   *)
(* succeed; once the store accepted the update of the first, the second is *)
(* answered 500 after its one update_twin call; the twin holds only what   *)
(* requests answered 200 wrote, one version per such request.              *)
(***************************************************************************)
Winners(d) ==
    {r \in Reqs : resp[r].status_code = 200 /\ device_id[r].s = d}

C7_OneWinner ==
    /\ \A r1, r2 \in Reqs :
          SameRead(r1, r2) =>
             /\ ~(resp[r1].status_code = 200 /\ resp[r2].status_code = 200)
             /\ (UpdatedBefore(r1, r2) /\ calls[r1][2].result = "") =>
                   /\ calls[r2][2].result # ""
                   /\ Finished(r2)
                   /\ resp[r2] = InternalServerError(calls[r2][2].result)
    /\ \A d \in Registered :
          /\ twins[d].etag = 1 + Cardinality(Winners(d))
          /\ \A k \in DOMAIN twins[d].desired :
                \E r \in Winners(d) :
                   /\ k \in DOMAIN desired_props[r]
                   /\ twins[d].desired[k] = desired_props[r][k]

C7_Witness ==
    \E r1, r2 \in Reqs :
        /\ SameRead(r1, r2) /\ UpdatedBefore(r1, r2)
        /\ resp[r1].status_code = 200
        /\ resp[r2].status_code = 500 /\ resp[r2].exc = "ConflictError"
        /\ desired_props[r1] # desired_props[r2]
        /\ twins[device_id[r1].s].desired = desired_props[r1]

(***************************************************************************)
(* C8: a request calls get_twin at most once and update_twin at most once; *)
(* a store call that fails is the request's last, and it is answered 500.  *)
(***************************************************************************)
C8_NoRetry ==
    \A r \in Reqs :
        /\ Cardinality(CallsOf(r, "get_twin")) <= 1
        /\ Cardinality(CallsOf(r, "update_twin")) <= 1
        /\ \A i \in DOMAIN calls[r] :
              calls[r][i].result # "" =>
                 /\ i = Len(calls[r])
                 /\ Finished(r)
                 /\ resp[r].status_code = 500

C8_Witness ==
    \E r \in Reqs :
        /\ CalledUpdate(r)
        /\ calls[r][2].result = "ConflictError"
        /\ Finished(r) /\ resp[r].status_code = 500

(***************************************************************************)
(* C9: a request that passed validation and coercion ends with exactly one *)
(* response, whatever the store does: 200 if and only if get_twin and      *)
(* update_twin both succeeded, 500 carrying the error for any failure of   *)
(* either call; the response, once given, stays; every store call in       *)
(* progress leads to a response.                                           *)
(***************************************************************************)
Answered(r) == resp[r].status_code # 0
AllCallsOk(r) ==
    /\ CalledUpdate(r)
    /\ \A i \in DOMAIN calls[r] : calls[r][i].result = ""

C9_Answer(r) ==
    /\ Answered(r) <=> Finished(r)
    /\ (Finished(r) /\ ~NoStoreCall(r)) =>
          /\ resp[r].status_code \in {200, 500}
          /\ resp[r].status_code = 200 <=> AllCallsOk(r)
          /\ \A i \in DOMAIN calls[r] :
                calls[r][i].result # "" => resp[r] = InternalServerError(calls[r][i].result)

C9_OneResponse ==
    /\ [](\A r \in Reqs : C9_Answer(r))
    /\ [][\A r \in Reqs : Answered(r) => resp'[r] = resp[r]]_vars
    /\ \A r \in Reqs : (pc[r] \in {"get_twin", "update_twin"}) ~> (Finished(r) /\ Answered(r))

C9_Witness ==
    \E r1, r2 \in Reqs :
        /\ Finished(r1) /\ resp[r1].status_code = 200 /\ AllCallsOk(r1)
        /\ Finished(r2) /\ resp[r2] = InternalServerError("NotFoundError")
        /\ Len(calls[r2]) = 1

(***************************************************************************)
(* C10: within a request the store is called only after validation and     *)
(* coercion, get_twin first; update_twin is called only after get_twin of  *)
(* the request succeeded, for the same device, with the etag get_twin      *)
(* returned and the patch {properties: {desired: <coerced map>}}; after a  *)
(* failed get_twin, update_twin is never called; 200 comes after both.     *)
(***************************************************************************)
C10_Order ==
    \A r \in Reqs :
        /\ ~NoStoreCall(r) =>
              /\ CredentialSet /\ WellFormed(r)
              /\ calls[r][1].op = "get_twin"
              /\ calls[r][1].id = req[r].fields["deviceId"].v
              /\ DOMAIN desired_props[r] = DOMAIN RequestedDesired(r)
        /\ pc[r] = "update_twin" => Len(calls[r]) = 1 /\ calls[r][1].result = ""
        /\ \A i \in CallsOf(r, "update_twin") :
              /\ i = 2
              /\ calls[r][1].result = ""
              /\ calls[r][2].id = calls[r][1].id
              /\ calls[r][2].etag = calls[r][1].retag
              /\ calls[r][2].patch = [properties |-> [desired |-> desired_props[r]]]
        /\ (~NoStoreCall(r) /\ calls[r][1].result # "") => Len(calls[r]) = 1
        /\ resp[r].status_code = 200 => CalledUpdate(r)

C10_Witness ==
    \E r \in Reqs :
        /\ CalledUpdate(r)
        /\ RequestedDesired(r) =
              [k \in {"DemoMode", "DeviceModel"} |->
                  IF k = "DemoMode" THEN PyStr(<<"O", "n">>) ELSE PyStr(<<"2">>)]
        /\ calls[r][2].patch.properties.desired =
              [k \in {"DemoMode", "DeviceModel"} |->
                  IF k = "DemoMode" THEN PyBool(TRUE) ELSE PyInt(2)]
        /\ calls[r][2].etag = calls[r][1].retag
        /\ resp[r].status_code = 200

====
